---- MODULE Spec2Model ----
(***************************************************************************)
(* The conversational request loop of the front-end: the LLMChat and the   *)
(* MultimodalRAG components (llm-chat / multimodal-rag pages), the         *)
(* LoadingButton they use and the response interceptor of utils/axios.ts.  *)
(*                                                                         *)
(* One component instance is modelled per behaviour (variant says which).  *)
(* React state is the VARIABLES; an event handler runs to its first await  *)
(* in one step, and the continuation after the await is a second step      *)
(* taken when the HTTP collaborator answers.  Handlers are fired by the    *)
(* DOM only through elements that are not disabled in the current render.  *)
(* Events are processed one at a time and each handler sees the state of   *)
(* the render that follows the previous event.                             *)
(*                                                                         *)
(* A text is a sequence of pieces: the whitespace piece WS or a run of     *)
(* non-whitespace characters, so "bad request" is <<"bad", WS, "request">>.*)
(* A loosely typed JavaScript value is a record tagged by t.               *)
(***************************************************************************)
EXTENDS Integers, Sequences, FiniteSets, TLC

VARIABLES
  variant,          \* "chat" (LLMChat) or "rag" (MultimodalRAG)
  mounted,          \* the component is on screen (LLMChat: the effect's flag)
  messages,         \* useState<ChatMessage[]>
  draft,            \* useState<string>, the input buffer
  loading,          \* useState(false), the chat pending flag
  error,            \* useState<string>(''), a JavaScript value
  systemPrompt,     \* LLMChat only
  model,            \* LLMChat only
  availableModels,  \* LLMChat only
  modelsReq,        \* LLMChat only: "pending" while GET models is in flight
  uploading,        \* MultimodalRAG only, the upload pending flag
  uploadSuccess,    \* MultimodalRAG only
  processedFiles,   \* MultimodalRAG only
  chatInflight,     \* bodies of the chat/query requests not yet answered
  chatCalls,        \* number of chat/query requests issued so far
  uploadInflight,   \* files of the upload requests not yet answered
  uploadCalls,      \* number of upload requests issued so far
  nextId            \* the next token makeId returns

vars == <<variant, mounted, messages, draft, loading, error, systemPrompt, model,
          availableModels, modelsReq, uploading, uploadSuccess, processedFiles,
          chatInflight, chatCalls, uploadInflight, uploadCalls, nextId>>

chatOnly == <<systemPrompt, model, availableModels, modelsReq>>
ragOnly == <<uploading, uploadSuccess, processedFiles, uploadInflight, uploadCalls>>

----------------------------------------------------------------------------
(* Bounds *)

MaxSends == 2       \* accepted submits per behaviour
MaxUploads == 2     \* accepted uploads per behaviour
MaxRequests == 3    \* accepted submits and uploads together

\* room for one more request within the bounds
MayIssue(calls, max) == calls < max /\ chatCalls + uploadCalls < MaxRequests

----------------------------------------------------------------------------
(* Texts *)

WS == " "

\* String.prototype.trim: drop the leading and the trailing whitespace.
RECURSIVE TrimStart(_)
TrimStart(s) ==
  IF s # <<>> /\ Head(s) = WS THEN TrimStart(Tail(s)) ELSE s

RECURSIVE TrimEnd(_)
TrimEnd(s) ==
  IF s # <<>> /\ s[Len(s)] = WS THEN TrimEnd(SubSeq(s, 1, Len(s) - 1)) ELSE s

Trim(s) == TrimEnd(TrimStart(s))

----------------------------------------------------------------------------
(* JavaScript values *)

Undef == [t |-> "undefined"]
Null == [t |-> "null"]
Bool(b) == [t |-> "boolean", v |-> b]
Str(s) == [t |-> "string", v |-> s]
Obj(fields) == [t |-> "object", f |-> fields]

NoFields == [error |-> Undef, details |-> Undef, detail |-> Undef, message |-> Undef]

\* ToBoolean
Truthy(v) ==
  CASE v.t = "undefined" -> FALSE
    [] v.t = "null" -> FALSE
    [] v.t = "boolean" -> v.v
    [] v.t = "string" -> v.v # <<>>
    [] v.t = "object" -> TRUE

\* a || b and a && b
JsOr(a, b) == IF Truthy(a) THEN a ELSE b
JsAnd(a, b) == IF Truthy(a) THEN b ELSE a

\* e?.k for the property names the handlers read; a string has none of them
Get(e, k) == IF e.t = "object" THEN e.f[k] ELSE Undef

\* a ?? b
Nullish(a, b) == IF a.t \in {"undefined", "null"} THEN b ELSE a

\* String.prototype.toString
JsToString(v) == v.v

----------------------------------------------------------------------------
(* Inputs *)

\* what the user can put in the input buffer
DraftInputs == {<<>>, <<WS>>, <<"hello">>, <<WS, "world", WS>>}

DefaultSystemPrompt == <<"You", WS, "are", WS, "a", WS, "helpful", WS, "assistant.">>
SystemPromptInputs == {<<WS>>, <<WS, "Be", WS, "brief.", WS>>}

\* an object body of a failed request
ErrorObject(er, ds, ms) ==
  Obj([NoFields EXCEPT !.error = er, !.details = ds, !.message = ms])

DetailsObject(de, dd) == Obj([NoFields EXCEPT !.error = de, !.detail = dd])

QuotaExceeded == Str(<<"quota", WS, "exceeded">>)

\* the details of an error body: absent, a text, or an object of its own
DetailsValues ==
  {Undef, Str(<<"details-text">>),
   DetailsObject(Str(<<>>), Str(<<"details.detail">>)),
   DetailsObject(Str(<<"details.error">>), Str(<<"details.detail">>))}

\* error.response.data of a failed request: every combination of the fields
\* the handlers read
AnyErrorBodies ==
  {Undef, Str(<<>>), Str(<<"bad", WS, "request">>)} \cup
  {ErrorObject(er, ds, ms) :
     er \in {Undef, Str(<<>>), QuotaExceeded},
     ds \in DetailsValues,
     ms \in {Undef, Str(<<"message">>)}}

\* error.response.data of a failed request: a text, an object with an error,
\* one with details and a message, and one with none of the fields read
ErrorBodies ==
  {Str(<<"bad", WS, "request">>),
   ErrorObject(QuotaExceeded, Undef, Undef),
   ErrorObject(Undef, DetailsObject(Str(<<>>), Str(<<"details.detail">>)),
               Str(<<"message">>)),
   ErrorObject(Undef, Undef, Undef)}

\* the error axios hands to the interceptor: no response at all, or one with a body
AxiosErrorsOver(bodies) ==
  {[response |-> Undef]} \cup {[response |-> Obj([data |-> d])] : d \in bodies}

\* res.data.content of a successful chat response
ContentValues == {Undef, Null, Str(<<>>), Str(<<"hi">>)}

----------------------------------------------------------------------------
(* utils/axios.ts *)

SomethingWentWrong == <<"Something", WS, "went", WS, "wrong">>

\* an interceptor that rejects with the body alone, without the default text
ResponseInterceptorError_BodyOnly(err) ==
  JsAnd(err.response, Get(err.response, "data"))

\* the rejection the response interceptor passes on to the caller
ResponseInterceptorError(err) ==
  JsOr(JsAnd(err.response, Get(err.response, "data")), Str(SomethingWentWrong))

\* what a handler can catch from a failed request
Thrown == {ResponseInterceptorError(err) : err \in AxiosErrorsOver(ErrorBodies)}
AnyThrown == {ResponseInterceptorError(err) : err \in AxiosErrorsOver(AnyErrorBodies)}

----------------------------------------------------------------------------
(* LLMChat *)

makeId == nextId

UserMessage(text) == [id |-> makeId, role |-> "user", content |-> text]
AssistantMessage(text) == [id |-> makeId, role |-> "assistant", content |-> text]

\* requestMessages that sends the latest turn only, without the history
requestMessages_NoHistory ==
  IF Trim(systemPrompt) # <<>>
  THEN <<[role |-> "system", content |-> Trim(systemPrompt)]>>
  ELSE <<>>

\* useMemo over [messages, systemPrompt]
requestMessages ==
  LET base == IF Trim(systemPrompt) # <<>>
              THEN <<[role |-> "system", content |-> Trim(systemPrompt)]>>
              ELSE <<>>
  IN base \o [i \in 1..Len(messages) |->
                [role |-> messages[i].role, content |-> messages[i].content]]

\* the body of POST chat
LLMChat_chatBody(text) ==
  [model |-> JsOr(Str(model), Undef),
   messages |-> Append(requestMessages, [role |-> "user", content |-> text])]

\* the guard of send() without its check of the pending flag
LLMChat_sendReturnsEarly_NoPendingCheck(text) == text = <<>>

\* the guard of send() without its check of the text
LLMChat_sendReturnsEarly_NoTextCheck(text) == loading

\* the guard of send() with && in the place of ||
LLMChat_sendReturnsEarly_BothNeeded(text) == text = <<>> /\ loading

\* if (!text || loading) return;
LLMChat_sendReturnsEarly(text) == text = <<>> \/ loading

\* send() up to the await, when it does not return early
LLMChat_sendAccepted ==
  LET text == Trim(draft) IN
  /\ variant = "chat" /\ mounted
  /\ ~LLMChat_sendReturnsEarly(text)
  /\ MayIssue(chatCalls, MaxSends)
  /\ error' = Str(<<>>)
  /\ loading' = TRUE
  /\ messages' = Append(messages, UserMessage(text))
  /\ nextId' = nextId + 1
  /\ draft' = <<>>
  /\ chatInflight' = Append(chatInflight, LLMChat_chatBody(text))
  /\ chatCalls' = chatCalls + 1
  /\ UNCHANGED <<variant, mounted, chatOnly, ragOnly>>

\* send() when it returns early
LLMChat_sendIgnored ==
  /\ variant = "chat" /\ mounted
  /\ LLMChat_sendReturnsEarly(Trim(draft))
  /\ UNCHANGED vars

\* Enter in the draft textarea (never disabled) or the Send button
LLMChat_send == LLMChat_sendAccepted \/ LLMChat_sendIgnored

FailedToSendMessage == <<"Failed", WS, "to", WS, "send", WS, "message">>
EmptyResponse == <<"(empty", WS, "response)">>

\* the catch block's chain with e?.message tried before e?.error
LLMChat_sendErrorMessage_MessageFirst(e) ==
  JsOr(JsOr(JsOr(JsOr(JsOr(JsAnd(Bool(e.t = "string"), e),
                           Get(e, "message")),
                      Get(e, "error")),
                 Get(Get(e, "details"), "error")),
            Get(Get(e, "details"), "detail")),
       Str(FailedToSendMessage))

\* the message the catch block of send() computes from the rejection e
LLMChat_sendErrorMessage(e) ==
  JsOr(JsOr(JsOr(JsOr(JsOr(JsAnd(Bool(e.t = "string"), e),
                           Get(e, "error")),
                      Get(Get(e, "details"), "error")),
                 Get(Get(e, "details"), "detail")),
            Get(e, "message")),
       Str(FailedToSendMessage))

\* the content of the assistant message taken from the response as it is
LLMChat_assistantContent_NoPlaceholder(res) ==
  JsToString(Nullish(Get(Get(res, "data"), "content"), Str(<<>>)))

\* content || '(empty response)' of the assistant message
LLMChat_assistantContent(res) ==
  LET content == JsToString(Nullish(Get(Get(res, "data"), "content"), Str(<<>>)))
  IN JsOr(Str(content), Str(EmptyResponse)).v

\* finally { setLoading(false) }
LLMChat_sendFinally == loading' = FALSE

\* the continuation of send() that rebuilds the transcript from the messages
\* the request was sent with, as a closure over the state at the submit would
LLMChat_sendResolved_StaleTranscript(i, res) ==
  LET sent == SelectSeq(chatInflight[i].messages, LAMBDA m : m.role # "system") IN
  /\ variant = "chat"
  /\ i \in 1..Len(chatInflight)
  /\ chatInflight' = SubSeq(chatInflight, 1, i - 1) \o
                     SubSeq(chatInflight, i + 1, Len(chatInflight))
  /\ messages' = [k \in 1..Len(sent) |->
                    [id |-> k, role |-> sent[k].role, content |-> sent[k].content]]
                 \o <<AssistantMessage(LLMChat_assistantContent(res))>>
  /\ nextId' = nextId + 1
  /\ LLMChat_sendFinally
  /\ UNCHANGED <<variant, mounted, draft, error, chatOnly, ragOnly, chatCalls>>

\* the continuation of send() that puts the answer in front of the transcript
LLMChat_sendResolved_Prepends(i, res) ==
  /\ variant = "chat"
  /\ i \in 1..Len(chatInflight)
  /\ chatInflight' = SubSeq(chatInflight, 1, i - 1) \o
                     SubSeq(chatInflight, i + 1, Len(chatInflight))
  /\ messages' = <<AssistantMessage(LLMChat_assistantContent(res))>> \o messages
  /\ nextId' = nextId + 1
  /\ LLMChat_sendFinally
  /\ UNCHANGED <<variant, mounted, draft, error, chatOnly, ragOnly, chatCalls>>

\* the continuation of send() that drops the answer when the transcript is not
\* the one the request was sent from
LLMChat_sendResolved_DropsAnswer(i, res) ==
  /\ variant = "chat"
  /\ i \in 1..Len(chatInflight)
  /\ chatInflight' = SubSeq(chatInflight, 1, i - 1) \o
                     SubSeq(chatInflight, i + 1, Len(chatInflight))
  /\ messages' = messages
  /\ nextId' = nextId + 1
  /\ LLMChat_sendFinally
  /\ UNCHANGED <<variant, mounted, draft, error, chatOnly, ragOnly, chatCalls>>

\* send() after the await, the request answered
LLMChat_sendResolved(i, res) ==
  /\ variant = "chat"
  /\ i \in 1..Len(chatInflight)
  /\ chatInflight' = SubSeq(chatInflight, 1, i - 1) \o
                     SubSeq(chatInflight, i + 1, Len(chatInflight))
  /\ messages' = Append(messages, AssistantMessage(LLMChat_assistantContent(res)))
  /\ nextId' = nextId + 1
  /\ LLMChat_sendFinally
  /\ UNCHANGED <<variant, mounted, draft, error, chatOnly, ragOnly, chatCalls>>

\* the catch block of send() that also takes the user's message back
LLMChat_sendRejected_RollsBack(i, e) ==
  /\ variant = "chat"
  /\ i \in 1..Len(chatInflight)
  /\ chatInflight' = SubSeq(chatInflight, 1, i - 1) \o
                     SubSeq(chatInflight, i + 1, Len(chatInflight))
  /\ messages' = SubSeq(messages, 1, Len(messages) - 1)
  /\ error' = LLMChat_sendErrorMessage(e)
  /\ LLMChat_sendFinally
  /\ UNCHANGED <<variant, mounted, nextId, draft, chatOnly, ragOnly, chatCalls>>

\* the catch block of send() without the finally block behind it
LLMChat_sendRejected_StaysPending(i, e) ==
  /\ variant = "chat"
  /\ i \in 1..Len(chatInflight)
  /\ chatInflight' = SubSeq(chatInflight, 1, i - 1) \o
                     SubSeq(chatInflight, i + 1, Len(chatInflight))
  /\ error' = LLMChat_sendErrorMessage(e)
  /\ UNCHANGED <<variant, mounted, messages, nextId, draft, loading, chatOnly, ragOnly,
                 chatCalls>>

\* the catch block of send() that sends the request again before giving up
LLMChat_sendRejected_Retries(i, e) ==
  /\ variant = "chat"
  /\ i \in 1..Len(chatInflight)
  /\ IF chatCalls < MaxSends
     THEN /\ chatCalls' = chatCalls + 1
          /\ UNCHANGED <<chatInflight, error, loading>>
     ELSE /\ chatInflight' = SubSeq(chatInflight, 1, i - 1) \o
                             SubSeq(chatInflight, i + 1, Len(chatInflight))
          /\ error' = LLMChat_sendErrorMessage(e)
          /\ LLMChat_sendFinally
          /\ UNCHANGED chatCalls
  /\ UNCHANGED <<variant, mounted, messages, nextId, draft, chatOnly, ragOnly>>

\* send() after the await, the request rejected with e
LLMChat_sendRejected(i, e) ==
  /\ variant = "chat"
  /\ i \in 1..Len(chatInflight)
  /\ chatInflight' = SubSeq(chatInflight, 1, i - 1) \o
                     SubSeq(chatInflight, i + 1, Len(chatInflight))
  /\ error' = LLMChat_sendErrorMessage(e)
  /\ LLMChat_sendFinally
  /\ UNCHANGED <<variant, mounted, messages, nextId, draft, chatOnly, ragOnly, chatCalls>>

\* clearChat() that leaves the stored error on screen
LLMChat_clearChat_KeepsError ==
  /\ variant = "chat" /\ mounted
  /\ messages' = <<>>
  /\ UNCHANGED <<variant, mounted, draft, loading, error, chatOnly, ragOnly,
                 chatInflight, chatCalls, nextId>>

\* clearChat() that also gives up the request in flight
LLMChat_clearChat_Cancels ==
  /\ variant = "chat" /\ mounted
  /\ messages' = <<>>
  /\ error' = Str(<<>>)
  /\ loading' = FALSE
  /\ chatInflight' = <<>>
  /\ UNCHANGED <<variant, mounted, draft, chatOnly, ragOnly, chatCalls, nextId>>

LLMChat_clearChat ==
  /\ variant = "chat" /\ mounted
  /\ messages' = <<>>
  /\ error' = Str(<<>>)
  /\ UNCHANGED <<variant, mounted, draft, loading, chatOnly, ragOnly,
                 chatInflight, chatCalls, nextId>>

\* onChange of the draft textarea
LLMChat_setDraft(d) ==
  /\ variant = "chat" /\ mounted
  /\ draft' = d
  /\ UNCHANGED <<variant, mounted, messages, loading, error, chatOnly, ragOnly,
                 chatInflight, chatCalls, nextId>>

\* onChange of the system prompt textarea
LLMChat_setSystemPrompt(p) ==
  /\ variant = "chat" /\ mounted
  /\ systemPrompt' = p
  /\ UNCHANGED <<variant, mounted, messages, draft, loading, error, model,
                 availableModels, modelsReq, ragOnly, chatInflight, chatCalls, nextId>>

\* onChange of the model select, disabled while no model is known
LLMChat_setModel(m) ==
  /\ variant = "chat" /\ mounted
  /\ availableModels # <<>>
  /\ \E i \in 1..Len(availableModels) : availableModels[i] = m
  /\ model' = m
  /\ UNCHANGED <<variant, mounted, messages, draft, loading, error, systemPrompt,
                 availableModels, modelsReq, ragOnly, chatInflight, chatCalls, nextId>>

\* what GET models may answer: the list of descriptors, or nothing usable
ModelsResponses ==
  {Undef,
   Obj([models |-> <<>>]),
   Obj([models |-> <<[name |-> Str(<<"llama3">>)], [name |-> Undef],
                     [name |-> Str(<<"mistral">>)]>>])}

\* models.map((m) => m?.name).filter(Boolean)
RECURSIVE ModelNames(_)
ModelNames(models) ==
  IF models = <<>> THEN <<>>
  ELSE IF Truthy(Head(models).name)
       THEN <<Head(models).name.v>> \o ModelNames(Tail(models))
       ELSE ModelNames(Tail(models))

\* loadModels() after the await, without its check of the mounted flag
LLMChat_loadModelsResolved_NoMountedCheck(data) ==
  LET models == IF data.t = "object" THEN data.f.models ELSE <<>>
      names == ModelNames(models)
  IN
  /\ variant = "chat"
  /\ modelsReq = "pending"
  /\ modelsReq' = "done"
  /\ availableModels' = names
  /\ model' = IF Len(names) # 0 THEN names[1] ELSE model
  /\ UNCHANGED <<variant, mounted, messages, draft, loading, error, systemPrompt,
                 ragOnly, chatInflight, chatCalls, nextId>>

\* loadModels() after the await, the request answered with data
LLMChat_loadModelsResolved(data) ==
  LET models == IF data.t = "object" THEN data.f.models ELSE <<>>
      names == ModelNames(models)
      modelAtMount == <<>>   \* the effect closes over the first render's model
  IN
  /\ variant = "chat"
  /\ modelsReq = "pending"
  /\ modelsReq' = "done"
  /\ IF ~mounted
     THEN UNCHANGED <<availableModels, model>>
     ELSE /\ availableModels' = names
          /\ model' = IF modelAtMount = <<>> /\ Len(names) # 0 THEN names[1] ELSE model
  /\ UNCHANGED <<variant, mounted, messages, draft, loading, error, systemPrompt,
                 ragOnly, chatInflight, chatCalls, nextId>>

\* the catch block of loadModels() that reports the failure in the error field
LLMChat_loadModelsRejected_SetsError ==
  /\ variant = "chat"
  /\ modelsReq = "pending"
  /\ modelsReq' = "done"
  /\ IF ~mounted
     THEN UNCHANGED <<availableModels, error>>
     ELSE availableModels' = <<>> /\ error' = Str(<<"Failed", WS, "to", WS, "load", WS, "models">>)
  /\ UNCHANGED <<variant, mounted, messages, draft, loading, systemPrompt,
                 model, ragOnly, chatInflight, chatCalls, nextId>>

\* loadModels() after the await, the request rejected
LLMChat_loadModelsRejected ==
  /\ variant = "chat"
  /\ modelsReq = "pending"
  /\ modelsReq' = "done"
  /\ IF ~mounted
     THEN UNCHANGED availableModels
     ELSE availableModels' = <<>>
  /\ UNCHANGED <<variant, mounted, messages, draft, loading, error, systemPrompt,
                 model, ragOnly, chatInflight, chatCalls, nextId>>

\* the cleanup of the effect: mounted = false.  Only loadModels() reads the
\* flag, so the cleanup is followed while its request is in flight.
LLMChat_unmount ==
  /\ variant = "chat" /\ mounted
  /\ modelsReq = "pending"
  /\ mounted' = FALSE
  /\ UNCHANGED <<variant, messages, draft, loading, error, chatOnly, ragOnly,
                 chatInflight, chatCalls, nextId>>

----------------------------------------------------------------------------
(* LoadingButton *)

\* <Button disabled={loading} ... {...props}>: a disabled prop of the caller,
\* spread last, replaces disabled={loading}
LoadingButton_disabled(loadingProp, props) ==
  IF "disabled" \in DOMAIN props THEN props.disabled ELSE loadingProp

----------------------------------------------------------------------------
(* MultimodalRAG *)

\* file names the user can choose; a name is its stem and its suffixes
FileInputs == {<<"report", ".txt">>, <<"Report", ".PDF">>, <<"scan", ".pdf", ".txt">>}

\* String.prototype.toLowerCase, piece by piece
LowerPiece(p) ==
  CASE p = "Report" -> "report"
    [] p = ".PDF" -> ".pdf"
    [] OTHER -> p

ToLowerCase(s) == [i \in 1..Len(s) |-> LowerPiece(s[i])]

\* String.prototype.endsWith
EndsWith(s, suffix) == s # <<>> /\ s[Len(s)] = suffix

PleaseUploadPdf == <<"Please", WS, "upload", WS, "a", WS, "PDF", WS, "file">>
FailedToUpload == <<"Failed", WS, "to", WS, "upload", WS, "and", WS, "process", WS, "PDF">>
SuccessfullyProcessed(name) == <<"Successfully", WS, "processed:", WS>> \o name

\* a file input that stays usable while an upload is in progress
MultimodalRAG_fileInputDisabled_Never == FALSE

\* the file input is disabled={uploading}; Browse only clicks that input
MultimodalRAG_fileInputDisabled == uploading

\* the suffix test without lower-casing the name
MultimodalRAG_isPdf_CaseSensitive(name) == EndsWith(name, ".pdf")

\* if (!file.name.toLowerCase().endsWith('.pdf'))
MultimodalRAG_isPdf(name) == EndsWith(ToLowerCase(name), ".pdf")

\* handleFileUpload() with an empty file list
MultimodalRAG_handleFileUploadNoFile ==
  /\ variant = "rag" /\ ~MultimodalRAG_fileInputDisabled
  /\ UNCHANGED vars

\* handleFileUpload() with a file that is no PDF
MultimodalRAG_handleFileUploadRejected(name) ==
  /\ variant = "rag" /\ ~MultimodalRAG_fileInputDisabled
  /\ ~MultimodalRAG_isPdf(name)
  /\ error' = Str(PleaseUploadPdf)
  /\ UNCHANGED <<variant, mounted, messages, draft, loading, chatOnly, ragOnly,
                 chatInflight, chatCalls, nextId>>

\* handleFileUpload() up to the await, leaving a stored error in its place
MultimodalRAG_handleFileUploadAccepted_KeepsError(name) ==
  /\ variant = "rag" /\ ~MultimodalRAG_fileInputDisabled
  /\ MultimodalRAG_isPdf(name)
  /\ MayIssue(uploadCalls, MaxUploads)
  /\ uploadSuccess' = <<>>
  /\ uploading' = TRUE
  /\ uploadInflight' = Append(uploadInflight, [file |-> name])
  /\ uploadCalls' = uploadCalls + 1
  /\ UNCHANGED <<variant, mounted, messages, draft, loading, error, chatOnly,
                 processedFiles, chatInflight, chatCalls, nextId>>

\* handleFileUpload() up to the await
MultimodalRAG_handleFileUploadAccepted(name) ==
  /\ variant = "rag" /\ ~MultimodalRAG_fileInputDisabled
  /\ MultimodalRAG_isPdf(name)
  /\ MayIssue(uploadCalls, MaxUploads)
  /\ error' = Str(<<>>)
  /\ uploadSuccess' = <<>>
  /\ uploading' = TRUE
  /\ uploadInflight' = Append(uploadInflight, [file |-> name])
  /\ uploadCalls' = uploadCalls + 1
  /\ UNCHANGED <<variant, mounted, messages, draft, loading, chatOnly, processedFiles,
                 chatInflight, chatCalls, nextId>>

MultimodalRAG_handleFileUpload(name) ==
  \/ MultimodalRAG_handleFileUploadRejected(name)
  \/ MultimodalRAG_handleFileUploadAccepted(name)

\* the message the catch block of handleFileUpload() computes from e
MultimodalRAG_uploadErrorMessage(e) ==
  JsOr(JsOr(JsOr(JsOr(JsAnd(Bool(e.t = "string"), e),
                      Get(e, "error")),
                 Get(e, "details")),
            Get(e, "message")),
       Str(FailedToUpload))

\* finally { setUploading(false) }
MultimodalRAG_uploadFinally == uploading' = FALSE

\* res.data of a successful upload: an empty body, or an object
UploadResponses ==
  {Str(<<>>)} \cup {Obj([filename |-> f]) : f \in {Undef, Str(<<>>), Str(<<"stored", ".pdf">>)}}

\* handleFileUpload() after the await, the request answered
MultimodalRAG_handleFileUploadResolved(i, data) ==
  LET name == JsOr(Get(data, "filename"), Str(uploadInflight[i].file)).v IN
  /\ variant = "rag"
  /\ i \in 1..Len(uploadInflight)
  /\ uploadInflight' = SubSeq(uploadInflight, 1, i - 1) \o
                       SubSeq(uploadInflight, i + 1, Len(uploadInflight))
  /\ uploadSuccess' = SuccessfullyProcessed(name)
  /\ processedFiles' = Append(processedFiles, name)
  /\ MultimodalRAG_uploadFinally
  /\ UNCHANGED <<variant, mounted, messages, draft, loading, error, chatOnly,
                 uploadCalls, chatInflight, chatCalls, nextId>>

\* handleFileUpload() after the await, the request rejected with e
MultimodalRAG_handleFileUploadFailed(i, e) ==
  /\ variant = "rag"
  /\ i \in 1..Len(uploadInflight)
  /\ uploadInflight' = SubSeq(uploadInflight, 1, i - 1) \o
                       SubSeq(uploadInflight, i + 1, Len(uploadInflight))
  /\ error' = MultimodalRAG_uploadErrorMessage(e)
  /\ MultimodalRAG_uploadFinally
  /\ UNCHANGED <<variant, mounted, messages, draft, loading, chatOnly, uploadSuccess,
                 processedFiles, uploadCalls, chatInflight, chatCalls, nextId>>

\* the draft textarea is disabled={loading || uploading}
MultimodalRAG_textareaDisabled == loading \/ uploading

\* <LoadingButton loading={loading} onClick={send} disabled={uploading}>
MultimodalRAG_sendButtonDisabled ==
  LoadingButton_disabled(loading, [type |-> "button", disabled |-> uploading])

\* send() can be fired by Enter in the textarea or by the Send button
MultimodalRAG_sendReachable ==
  ~MultimodalRAG_textareaDisabled \/ ~MultimodalRAG_sendButtonDisabled

\* if (!text || loading) return;
MultimodalRAG_sendReturnsEarly(text) == text = <<>> \/ loading

\* a query body that carries the transcript as the chat body does
MultimodalRAG_queryBody_WithHistory(text) ==
  [question |-> text,
   messages |-> [i \in 1..Len(messages) |->
                   [role |-> messages[i].role, content |-> messages[i].content]]]

\* the body of POST ragQuery
MultimodalRAG_queryBody(text) == [question |-> text]

\* send() up to the await, when it does not return early
MultimodalRAG_sendAccepted ==
  LET text == Trim(draft) IN
  /\ variant = "rag" /\ MultimodalRAG_sendReachable
  /\ ~MultimodalRAG_sendReturnsEarly(text)
  /\ MayIssue(chatCalls, MaxSends)
  /\ error' = Str(<<>>)
  /\ loading' = TRUE
  /\ messages' = Append(messages, UserMessage(text))
  /\ nextId' = nextId + 1
  /\ draft' = <<>>
  /\ chatInflight' = Append(chatInflight, MultimodalRAG_queryBody(text))
  /\ chatCalls' = chatCalls + 1
  /\ UNCHANGED <<variant, mounted, chatOnly, ragOnly>>

\* send() when it returns early
MultimodalRAG_sendIgnored ==
  /\ variant = "rag" /\ MultimodalRAG_sendReachable
  /\ MultimodalRAG_sendReturnsEarly(Trim(draft))
  /\ UNCHANGED vars

MultimodalRAG_send == MultimodalRAG_sendAccepted \/ MultimodalRAG_sendIgnored

\* res.data of a successful query
SomeContext == Obj([texts |-> <<<<"page", WS, "1">>>>, images |-> <<>>])
EmptyObject == Obj([texts |-> Undef, images |-> Undef])
QueryResponses ==
  {Undef,
   Obj([answer |-> Undef, context |-> Undef]),
   Obj([answer |-> Null, context |-> Undef]),
   Obj([answer |-> Str(<<>>), context |-> Undef]),
   Obj([answer |-> Str(<<"hi">>), context |-> SomeContext])}

\* res?.data?.answer || '(empty response)'
MultimodalRAG_answer(data) == JsOr(Get(data, "answer"), Str(EmptyResponse)).v

\* res?.data?.context || {}
MultimodalRAG_context(data) == JsOr(Get(data, "context"), EmptyObject)

\* finally { setLoading(false) }
MultimodalRAG_sendFinally == loading' = FALSE

\* send() after the await, the request answered
MultimodalRAG_sendResolved(i, data) ==
  /\ variant = "rag"
  /\ i \in 1..Len(chatInflight)
  /\ chatInflight' = SubSeq(chatInflight, 1, i - 1) \o
                     SubSeq(chatInflight, i + 1, Len(chatInflight))
  /\ messages' = Append(messages,
                        [id |-> makeId, role |-> "assistant",
                         content |-> MultimodalRAG_answer(data),
                         context |-> MultimodalRAG_context(data)])
  /\ nextId' = nextId + 1
  /\ MultimodalRAG_sendFinally
  /\ UNCHANGED <<variant, mounted, draft, error, chatOnly, ragOnly, chatCalls>>

\* the message the catch block of send() computes from the rejection e
MultimodalRAG_sendErrorMessage(e) ==
  JsOr(JsOr(JsOr(JsOr(JsOr(JsAnd(Bool(e.t = "string"), e),
                           Get(e, "error")),
                      Get(Get(e, "details"), "error")),
                 Get(Get(e, "details"), "detail")),
            Get(e, "message")),
       Str(FailedToSendMessage))

\* send() after the await, the request rejected with e
MultimodalRAG_sendRejected(i, e) ==
  /\ variant = "rag"
  /\ i \in 1..Len(chatInflight)
  /\ chatInflight' = SubSeq(chatInflight, 1, i - 1) \o
                     SubSeq(chatInflight, i + 1, Len(chatInflight))
  /\ error' = MultimodalRAG_sendErrorMessage(e)
  /\ MultimodalRAG_sendFinally
  /\ UNCHANGED <<variant, mounted, messages, nextId, draft, chatOnly, ragOnly, chatCalls>>

\* a clear that also forgets the processed files and the upload's message
MultimodalRAG_clearChat_ForgetsFiles ==
  /\ variant = "rag"
  /\ messages' = <<>>
  /\ error' = Str(<<>>)
  /\ processedFiles' = <<>>
  /\ uploadSuccess' = <<>>
  /\ UNCHANGED <<variant, mounted, draft, loading, chatOnly, uploading, uploadInflight,
                 uploadCalls, chatInflight, chatCalls, nextId>>

MultimodalRAG_clearChat ==
  /\ variant = "rag"
  /\ messages' = <<>>
  /\ error' = Str(<<>>)
  /\ UNCHANGED <<variant, mounted, draft, loading, chatOnly, ragOnly,
                 chatInflight, chatCalls, nextId>>

\* onChange of the draft textarea
MultimodalRAG_setDraft(d) ==
  /\ variant = "rag" /\ ~MultimodalRAG_textareaDisabled
  /\ draft' = d
  /\ UNCHANGED <<variant, mounted, messages, loading, error, chatOnly, ragOnly,
                 chatInflight, chatCalls, nextId>>

----------------------------------------------------------------------------
(* The two components *)

Init ==
  /\ variant \in {"chat", "rag"}
  /\ mounted = TRUE
  /\ messages = <<>>
  /\ draft = <<>>
  /\ loading = FALSE
  /\ error = Str(<<>>)
  /\ systemPrompt = DefaultSystemPrompt
  /\ model = <<>>
  /\ availableModels = <<>>
  /\ modelsReq = IF variant = "chat" THEN "pending" ELSE "none"
  /\ uploading = FALSE
  /\ uploadSuccess = <<>>
  /\ processedFiles = <<>>
  /\ chatInflight = <<>>
  /\ chatCalls = 0
  /\ uploadInflight = <<>>
  /\ uploadCalls = 0
  /\ nextId = 1

ChatRequestAnswered ==
  \/ \E i \in 1..Len(chatInflight), c \in ContentValues :
       LLMChat_sendResolved(i, Obj([data |-> Obj([content |-> c])]))
  \/ \E i \in 1..Len(chatInflight), e \in Thrown : LLMChat_sendRejected(i, e)
  \/ \E i \in 1..Len(chatInflight), d \in QueryResponses : MultimodalRAG_sendResolved(i, d)
  \/ \E i \in 1..Len(chatInflight), e \in Thrown : MultimodalRAG_sendRejected(i, e)

UploadRequestAnswered ==
  \/ \E i \in 1..Len(uploadInflight), d \in UploadResponses :
       MultimodalRAG_handleFileUploadResolved(i, d)
  \/ \E i \in 1..Len(uploadInflight), e \in Thrown :
       MultimodalRAG_handleFileUploadFailed(i, e)

ModelsRequestAnswered ==
  \/ \E d \in ModelsResponses : LLMChat_loadModelsResolved(d)
  \/ LLMChat_loadModelsRejected

UserAction ==
  \/ LLMChat_send
  \/ LLMChat_clearChat
  \/ \E d \in DraftInputs : LLMChat_setDraft(d)
  \/ \E p \in SystemPromptInputs : LLMChat_setSystemPrompt(p)
  \/ \E m \in {<<"llama3">>, <<"mistral">>} : LLMChat_setModel(m)
  \/ LLMChat_unmount
  \/ MultimodalRAG_send
  \/ MultimodalRAG_clearChat
  \/ \E d \in DraftInputs : MultimodalRAG_setDraft(d)
  \/ MultimodalRAG_handleFileUploadNoFile
  \/ \E f \in FileInputs : MultimodalRAG_handleFileUpload(f)

Next ==
  \/ UserAction
  \/ ChatRequestAnswered
  \/ UploadRequestAnswered
  \/ ModelsRequestAnswered

Spec == Init /\ [][Next]_vars

\* the failure path of a submit alone, with every failure body
ChatRequestFailedAnyhow ==
  \/ \E i \in 1..Len(chatInflight), e \in AnyThrown : LLMChat_sendRejected(i, e)
  \/ \E i \in 1..Len(chatInflight), e \in AnyThrown : MultimodalRAG_sendRejected(i, e)

ErrNext ==
  \/ \E d \in DraftInputs : LLMChat_setDraft(d)
  \/ \E d \in DraftInputs : MultimodalRAG_setDraft(d)
  \/ LLMChat_sendAccepted
  \/ MultimodalRAG_sendAccepted
  \/ ChatRequestFailedAnyhow

ErrSpec == Init /\ [][ErrNext]_vars

\* every request the HTTP collaborator was given is answered or fails
FairSpec ==
  Spec /\ WF_vars(ChatRequestAnswered) /\ WF_vars(UploadRequestAnswered)
       /\ WF_vars(ModelsRequestAnswered)

----------------------------------------------------------------------------
(* Steps of the request loop, for the properties below *)

\* send() ran, whatever it did
Submitted == LLMChat_send \/ MultimodalRAG_send

\* a chat or query request left the network
ChatAnswered == Len(chatInflight') < Len(chatInflight)

\* a chat or query request was answered
ChatSucceeded ==
  /\ ChatAnswered
  /\ \/ \E i \in 1..Len(chatInflight), c \in ContentValues :
          LLMChat_sendResolved(i, Obj([data |-> Obj([content |-> c])]))
     \/ \E i \in 1..Len(chatInflight), d \in QueryResponses :
          MultimodalRAG_sendResolved(i, d)

\* a chat or query request failed
ChatFailed ==
  /\ ChatAnswered
  /\ \/ \E i \in 1..Len(chatInflight), e \in Thrown : LLMChat_sendRejected(i, e)
     \/ \E i \in 1..Len(chatInflight), e \in Thrown : MultimodalRAG_sendRejected(i, e)

Cleared == LLMChat_clearChat \/ MultimodalRAG_clearChat

Roles(ms) == [i \in 1..Len(ms) |-> ms[i].role]

----------------------------------------------------------------------------
(* C1: at most one chat request is outstanding in every reachable state, and
   a request is outstanding only while the pending flag is set: a submit made
   while a request is pending issues no second request. *)
C1_AtMostOneOutstanding ==
  /\ Len(chatInflight) <= 1
  /\ Len(chatInflight) = 1 => loading

\* "hello" was sent and is pending, "world" is in the buffer, one call was made
C1_Witness ==
  /\ variant = "chat" /\ loading
  /\ Trim(draft) = <<"world">>
  /\ chatCalls = 1
  /\ Len(chatInflight) = 1
  /\ chatInflight[1].messages[Len(chatInflight[1].messages)].content = <<"hello">>

(* C2: a submit of a text that is not empty after trimming, made while idle,
   makes the transcript one longer at once, the new last message being the
   user's trimmed text; an answer makes it one longer again and a failure
   leaves its length alone. *)
C2_TranscriptGrowth ==
  [][/\ (Submitted /\ ~loading /\ Trim(draft) # <<>>) =>
          /\ Len(messages') = Len(messages) + 1
          /\ messages'[Len(messages')].role = "user"
          /\ messages'[Len(messages')].content = Trim(draft)
     /\ ChatSucceeded => Len(messages') = Len(messages) + 1
     /\ ChatFailed => Len(messages') = Len(messages)]_vars

\* a first submit failed and a second one was answered
C2_Witness ==
  /\ chatCalls = 2 /\ ~loading
  /\ Roles(messages) = <<"user", "user", "assistant">>

(* C3: the messages of every chat request are the trimmed system prompt, when
   it is not empty after trimming, then the transcript of the moment of the
   submit in its order, then the new user message. *)
C3_RequestPayload ==
  [][LLMChat_sendAccepted =>
       LET sent == chatInflight'[Len(chatInflight')].messages
           k == IF Trim(systemPrompt) = <<>> THEN 0 ELSE 1
       IN /\ Len(sent) = k + Len(messages) + 1
          /\ k = 1 => sent[1] = [role |-> "system", content |-> Trim(systemPrompt)]
          /\ \A i \in 1..Len(messages) :
               /\ sent[k + i].role = messages[i].role
               /\ sent[k + i].content = messages[i].content
          /\ sent[Len(sent)] = [role |-> "user", content |-> Trim(draft)]]_vars

\* a request in flight that carries a padded system prompt and an earlier turn
C3_Witness ==
  /\ variant = "chat" /\ Len(chatInflight) = 1
  /\ Roles(chatInflight[1].messages) = <<"system", "user", "assistant", "user">>
  /\ chatInflight[1].messages[1].content = <<"Be", WS, "brief.">>

(* C4: a submit while a request is pending changes nothing: not the
   transcript, the pending flag, the input buffer or the stored error, and no
   request is issued. *)
C4_SubmitWhilePendingIsNoOp ==
  [][(Submitted /\ loading) =>
       UNCHANGED <<messages, loading, draft, error, chatInflight, chatCalls>>]_vars

\* a request is pending and the buffer holds a text to submit
C4_Witness ==
  /\ variant = "chat" /\ loading /\ Len(chatInflight) = 1
  /\ Trim(draft) = <<"hello">>
  /\ Len(messages) = 1

(* C5: the failure of a chat request leaves the transcript as it is (the
   user's message is not taken back and no assistant message is added),
   stores an error text that is not empty and puts the pending flag back to
   idle. *)
C5_FailureKeepsTranscript ==
  [][ChatFailed =>
       /\ messages' = messages
       /\ error'.t = "string" /\ error'.v # <<>>
       /\ ~loading']_vars

\* after one failed request: the user's message alone, an error, idle
C5_Witness ==
  /\ chatCalls = 1 /\ ~loading /\ chatInflight = <<>>
  /\ Roles(messages) = <<"user">>
  /\ Truthy(error)

(* C6: each pending flag leaves idle only when its request is issued and
   leaves pending only when that request is answered or fails; when every
   request is answered or fails, a flag never stays pending for ever: at
   every moment it is idle then or later. *)
C6_PendingFlagsReturnToIdle ==
  /\ [][/\ (~loading /\ loading') => Len(chatInflight') = Len(chatInflight) + 1
        /\ (loading /\ ~loading') => Len(chatInflight') = Len(chatInflight) - 1
        /\ (~uploading /\ uploading') => Len(uploadInflight') = Len(uploadInflight) + 1
        /\ (uploading /\ ~uploading') => Len(uploadInflight') = Len(uploadInflight) - 1]_vars
  /\ []<>~loading
  /\ []<>~uploading

\* both flags were pending and both are idle again
C6_Witness ==
  /\ variant = "rag"
  /\ chatCalls >= 1 /\ ~loading /\ chatInflight = <<>>
  /\ uploadCalls >= 1 /\ ~uploading /\ uploadInflight = <<>>

(* C7: after clearChat(), whatever the state it is called in, the transcript
   and the stored error are empty. *)
C7_ClearEmptiesTranscriptAndError ==
  [][Cleared => messages' = <<>> /\ error' = Str(<<>>)]_vars

\* cleared after two submits, the second one still pending
C7_Witness ==
  /\ chatCalls = 2 /\ loading
  /\ messages = <<>>
  /\ error = Str(<<>>)

(* C8: clearChat() leaves the pending flags and the requests in flight alone,
   and the answer or the failure of a request whose transcript was cleared is
   processed as any other: the assistant message is appended or the error is
   stored, and the flag goes back to idle. *)
C8_ClearLeavesRequestInFlight ==
  [][/\ Cleared => UNCHANGED <<loading, chatInflight, chatCalls,
                               uploading, uploadInflight, uploadCalls>>
     /\ (ChatSucceeded /\ messages = <<>>) =>
          /\ Roles(messages') = <<"assistant">>
          /\ ~loading'
     /\ (ChatFailed /\ messages = <<>>) =>
          /\ messages' = <<>>
          /\ Truthy(error')
          /\ ~loading']_vars

\* the answer to a request whose transcript was cleared while it was pending
C8_Witness ==
  /\ chatCalls = 1 /\ ~loading /\ chatInflight = <<>>
  /\ Roles(messages) = <<"assistant">>

(* C9: in MultimodalRAG, whenever the chat flag is idle and the buffer holds a
   text that is not empty after trimming, a submit is accepted, whether or
   not an upload is in flight. *)
C9_SubmitUsableDuringUpload ==
  (/\ variant = "rag"
   /\ ~loading
   /\ Trim(draft) # <<>>
   /\ MayIssue(chatCalls, MaxSends))
  => ENABLED MultimodalRAG_sendAccepted

\* the candidates of the stored error, in the order of the claim
ErrorCandidates(e) ==
  LET Field(v, k) == IF v.t = "object" THEN v.f[k] ELSE Undef IN
  <<IF e.t = "string" THEN e ELSE Undef,
    Field(e, "error"),
    Field(Field(e, "details"), "error"),
    Field(Field(e, "details"), "detail"),
    Field(e, "message"),
    Str(FailedToSendMessage)>>

\* the first candidate that is a text and is not empty
FirstAvailable(e) ==
  LET c == ErrorCandidates(e)
      Available(k) == c[k].t = "string" /\ c[k].v # <<>>
      first == CHOOSE k \in 1..6 : Available(k) /\ \A j \in 1..(k - 1) : ~Available(j)
  IN c[first]

(* C10: the error stored by a failed chat request is the first of these that
   is a text and not empty: the payload itself, its error, its details.error,
   its details.detail, its message, 'Failed to send message'.  The payload
   "bad request" stores "bad request" and {error: "quota exceeded"} stores
   "quota exceeded". *)
C10_ErrorPriority ==
  [][ChatAnswered =>
       \A i \in 1..Len(chatInflight) :
         /\ \A e \in AnyThrown :
              (LLMChat_sendRejected(i, e) \/ MultimodalRAG_sendRejected(i, e))
                => error' = FirstAvailable(e)
         /\ LLMChat_sendRejected(i, Str(<<"bad", WS, "request">>))
              => error' = Str(<<"bad", WS, "request">>)
         /\ LLMChat_sendRejected(i, ErrorObject(QuotaExceeded, Undef, Undef))
              => error' = Str(<<"quota", WS, "exceeded">>)]_vars

\* a failure whose body has an empty error and a details.detail stored that detail
C10_Witness ==
  /\ variant = "chat" /\ ~loading /\ chatCalls = 1
  /\ error = Str(<<"details.detail">>)

----------------------------------------------------------------------------
\* a user message was appended to the transcript: a submit was accepted
UserMessageAppended ==
  /\ Len(messages') = Len(messages) + 1
  /\ messages'[Len(messages')].role = "user"

(* C11: a request is issued exactly when a submit is accepted, one request
   for one submit; the failure of a request issues none, so the number of
   requests only ever grows by one, together with a user message. *)
C11_OneRequestPerAcceptedSubmit ==
  [][/\ UserMessageAppended <=> chatCalls' = chatCalls + 1
     /\ chatCalls' # chatCalls =>
          /\ chatCalls' = chatCalls + 1
          /\ Len(chatInflight') = Len(chatInflight) + 1
     /\ Len(chatInflight') > Len(chatInflight) => chatCalls' = chatCalls + 1
     /\ ChatFailed => chatCalls' = chatCalls]_vars

\* two submits, both failed: two requests were made and none is in flight
C11_Witness ==
  /\ chatCalls = 2 /\ chatInflight = <<>> /\ ~loading
  /\ Roles(messages) = <<"user", "user">>
  /\ Truthy(error)

----------------------------------------------------------------------------
\* the content and answer fields of a response that count as empty or absent
EmptyOrAbsent == {Undef, Null, Str(<<>>)}

(* C12: a successful response whose content (chat) or answer (multimodal)
   is empty or absent appends an assistant message whose content is the
   placeholder '(empty response)'; no message of the transcript ever has an
   empty content. *)
C12_EmptyResponsePlaceholder ==
  /\ [](\A k \in 1..Len(messages) : messages[k].content # <<>>)
  /\ [][ChatAnswered =>
          /\ \A i \in 1..Len(chatInflight), c \in EmptyOrAbsent :
               LLMChat_sendResolved(i, Obj([data |-> Obj([content |-> c])])) =>
                 /\ messages'[Len(messages')].role = "assistant"
                 /\ messages'[Len(messages')].content = EmptyResponse
          /\ \A i \in 1..Len(chatInflight), a \in EmptyOrAbsent :
               MultimodalRAG_sendResolved(i, Obj([answer |-> a, context |-> Undef])) =>
                 /\ messages'[Len(messages')].role = "assistant"
                 /\ messages'[Len(messages')].content = EmptyResponse
          /\ \A i \in 1..Len(chatInflight) :
               MultimodalRAG_sendResolved(i, Undef) =>
                 messages'[Len(messages')].content = EmptyResponse]_vars

\* an empty answer arrived and is shown as the placeholder
C12_Witness ==
  /\ Roles(messages) = <<"user", "assistant">>
  /\ messages[2].content = EmptyResponse
  /\ ~loading /\ chatInflight = <<>>

----------------------------------------------------------------------------
\* the last suffix of the name is .pdf in either case
HasPdfSuffix(name) == name[Len(name)] \in {".pdf", ".PDF"}

(* C13: handling a chosen file accepts it iff its lower-cased name ends in
   ".pdf". A rejected file (report.txt, scan.pdf.txt) stores the validation
   error, makes no network call and leaves the upload flag idle; an accepted
   file (Report.PDF) issues exactly one upload request. *)
C13_UploadAcceptsOnlyPdf ==
  [][\A name \in FileInputs :
       MultimodalRAG_handleFileUpload(name) =>
         IF HasPdfSuffix(name)
         THEN /\ uploadCalls' = uploadCalls + 1
              /\ uploadInflight' = Append(uploadInflight, [file |-> name])
              /\ uploading'
         ELSE /\ error' = Str(PleaseUploadPdf)
              /\ UNCHANGED <<uploadCalls, uploadInflight, uploading>>
              /\ ~uploading']_vars

\* Report.PDF was uploaded and processed, then a file that is no PDF was refused
C13_Witness ==
  /\ processedFiles = <<<<"Report", ".PDF">>>>
  /\ uploadCalls = 1 /\ uploadInflight = <<>> /\ ~uploading
  /\ error = Str(PleaseUploadPdf)

----------------------------------------------------------------------------
\* the transcript gained one message at its end and kept all it had
AppendedOne ==
  /\ Len(messages') = Len(messages) + 1
  /\ SubSeq(messages', 1, Len(messages)) = messages

(* C14: a step leaves the transcript as it is, appends one message to it, or
   is a clear that empties it; so between two clears an earlier transcript is
   a prefix of every later one, and no message is changed, moved or removed
   on its own. *)
C14_TranscriptAppendOnly ==
  [][\/ messages' = messages
     \/ AppendedOne
     \/ Cleared /\ messages' = <<>>]_vars

\* two turns were appended one after the other, in order
C14_Witness ==
  /\ Roles(messages) = <<"user", "assistant", "user", "assistant">>
  /\ messages[1].id < messages[2].id /\ messages[2].id < messages[3].id
  /\ messages[3].id < messages[4].id

----------------------------------------------------------------------------
(* C15: while a chat or query request is pending, the input buffer can be
   set to any text and the transcript can be cleared, in the chat and in the
   multimodal variant.  The multimodal draft textarea is disabled while the
   request is pending, so there the buffer cannot be edited. *)
C15_EditAndClearWhilePending ==
  (mounted /\ loading) =>
    /\ \A d \in DraftInputs :
         ENABLED (LLMChat_setDraft(d) \/ MultimodalRAG_setDraft(d))
    /\ ENABLED Cleared

\* the same statement for the chat variant alone, where it holds
C15_ChatEditAndClearWhilePending ==
  (variant = "chat" /\ mounted /\ loading) =>
    /\ \A d \in DraftInputs : ENABLED LLMChat_setDraft(d)
    /\ ENABLED LLMChat_clearChat

----------------------------------------------------------------------------
(* C16: a failed model discovery leaves the list of models empty and the
   selected model unset, stores no error and does not touch the pending flag,
   the transcript or the requests; afterwards a submit of non-blank text is
   accepted as ever, and a submit accepted while no model is known sends a
   body without a model identifier. *)
C16_DiscoveryFailureNonFatal ==
  /\ [][LLMChat_loadModelsRejected =>
          /\ availableModels' = <<>> /\ model' = <<>>
          /\ UNCHANGED <<error, loading, messages, draft, chatInflight, chatCalls>>]_vars
  /\ []((/\ variant = "chat" /\ mounted
         /\ modelsReq = "done" /\ availableModels = <<>>
         /\ ~loading /\ Trim(draft) # <<>> /\ MayIssue(chatCalls, MaxSends))
        => ENABLED LLMChat_sendAccepted)
  /\ [][(variant = "chat" /\ availableModels = <<>> /\ UserMessageAppended) =>
          /\ Len(chatInflight') = Len(chatInflight) + 1
          /\ chatInflight'[Len(chatInflight')].model.t = "undefined"]_vars

\* discovery is over with no model known, and a submit went out without a model
C16_Witness ==
  /\ variant = "chat" /\ mounted
  /\ modelsReq = "done" /\ availableModels = <<>> /\ model = <<>>
  /\ error = Str(<<>>) /\ loading
  /\ Len(chatInflight) = 1 /\ chatInflight[1].model = Undef

----------------------------------------------------------------------------
(* C17: whatever the payload of a failed chat, query or upload request, the
   error field holds a display string, never a structured object.  The catch
   block of handleFileUpload() stores e.details as it is, so a payload whose
   details is an object (the shape the catch block of send() reads) puts an
   object in the error field. *)
C17_ErrorIsDisplayString == error.t = "string"

----------------------------------------------------------------------------
(* C18: a submit whose text is empty once trimmed is ignored without a
   trace: no request is issued and no message is shown; the transcript, the
   pending flag, the input buffer and the error stored before stay as they
   are. *)
C18_BlankSubmitIgnored ==
  [][(Submitted /\ Trim(draft) = <<>>) =>
       UNCHANGED <<messages, loading, draft, error, chatInflight, chatCalls,
                   nextId>>]_vars

\* a blank buffer next to an error stored by a failed request: a submit here
\* is one the guard ignores, and the error and the transcript are there to keep
C18_Witness ==
  /\ draft = <<WS>> /\ ~loading /\ ~uploading
  /\ Truthy(error) /\ Roles(messages) = <<"user">>
  /\ chatCalls = 1 /\ chatInflight = <<>>

----------------------------------------------------------------------------
(* C19: the upload flag is raised exactly while an upload request is in
   flight, at most one upload request is in flight in every reachable state,
   and an upload starts only when the flag is down. *)
C19_AtMostOneUpload ==
  /\ [](Len(uploadInflight) <= 1 /\ (uploading <=> Len(uploadInflight) = 1))
  /\ [][uploadCalls' # uploadCalls =>
          /\ ~uploading /\ uploading'
          /\ uploadInflight = <<>> /\ Len(uploadInflight') = 1]_vars

\* a second upload is in flight, started after the first one was over
C19_Witness ==
  /\ uploadCalls = 2 /\ uploading /\ Len(uploadInflight) = 1
  /\ Len(processedFiles) = 1

(* C20: in the multimodal variant an accepted submit sends a query whose
   body is the one field question, holding the trimmed text of the buffer;
   nothing of the transcript goes into it. *)
C20_QueryBodyIsQuestionOnly ==
  [][(variant = "rag" /\ UserMessageAppended) =>
       /\ Len(chatInflight') = Len(chatInflight) + 1
       /\ chatInflight'[Len(chatInflight')] = [question |-> Trim(draft)]
       /\ Trim(draft) # <<>>]_vars

\* a query sent after an earlier turn: the padded text trimmed, no history
C20_Witness ==
  /\ variant = "rag"
  /\ Roles(messages) = <<"user", "assistant", "user">>
  /\ chatInflight = <<[question |-> <<"world">>]>>

----------------------------------------------------------------------------
(* C21: a clear made while a chat or query request is pending empties the
   transcript and leaves the request pending; when that request succeeds the
   assistant message is appended to the emptied transcript, which is then
   that one assistant message with no user message before it; when it fails
   the transcript stays empty and the error field is a non-empty text again. *)
C21_ClearWhilePending ==
  [][/\ (loading /\ Cleared) =>
          /\ messages' = <<>> /\ error' = Str(<<>>)
          /\ loading' /\ chatInflight' = chatInflight
     /\ (messages = <<>> /\ ChatSucceeded) =>
          /\ Roles(messages') = <<"assistant">>
          /\ ~loading'
     /\ (messages = <<>> /\ ChatFailed) =>
          /\ messages' = <<>>
          /\ error'.t = "string" /\ error'.v # <<>>
          /\ ~loading']_vars

\* the answer to a request cleared while it was pending stands alone
C21_Witness ==
  /\ Roles(messages) = <<"assistant">>
  /\ chatCalls = 1 /\ chatInflight = <<>> /\ ~loading
  /\ error = Str(<<>>)

----------------------------------------------------------------------------
\* failures that carry nothing to show: no response, or a response without a body
NoBodyErrors ==
  {[response |-> Undef], [response |-> Obj([data |-> Undef])],
   [response |-> Obj([data |-> Str(<<>>)])]}

(* C22: the error stored by a failed chat or query request is a text and is
   never empty.  A failure without a response body reaches the handler as
   'Something went wrong' and is stored as that; a body that has none of the
   fields the handler reads stores 'Failed to send message'. *)
C22_StoredErrorNeverEmpty ==
  [][ChatAnswered =>
       \A i \in 1..Len(chatInflight) :
         /\ \A e \in AnyThrown :
              (LLMChat_sendRejected(i, e) \/ MultimodalRAG_sendRejected(i, e))
                => error'.t = "string" /\ error'.v # <<>>
         /\ \A err \in NoBodyErrors :
              (\/ LLMChat_sendRejected(i, ResponseInterceptorError(err))
               \/ MultimodalRAG_sendRejected(i, ResponseInterceptorError(err)))
                => error' = Str(SomethingWentWrong)
         /\ (\/ LLMChat_sendRejected(i, ErrorObject(Undef, Undef, Undef))
             \/ MultimodalRAG_sendRejected(i, ErrorObject(Undef, Undef, Undef)))
              => error' = Str(FailedToSendMessage)]_vars

\* a query failed without a response and the default text is what is stored
C22_Witness ==
  /\ variant = "rag" /\ ~loading /\ chatCalls = 1 /\ chatInflight = <<>>
  /\ error = Str(SomethingWentWrong)

----------------------------------------------------------------------------
\* an upload request left the network
UploadAnswered == Len(uploadInflight') < Len(uploadInflight)

\* an upload request failed
UploadFailed ==
  /\ UploadAnswered
  /\ \E i \in 1..Len(uploadInflight), e \in Thrown :
       MultimodalRAG_handleFileUploadFailed(i, e)

\* an upload request was answered
UploadSucceeded ==
  /\ UploadAnswered
  /\ \E i \in 1..Len(uploadInflight), d \in UploadResponses :
       MultimodalRAG_handleFileUploadResolved(i, d)

\* a chosen file was refused for its name
UploadRefused == \E name \in FileInputs : MultimodalRAG_handleFileUploadRejected(name)

(* C23: in the multimodal variant queries and uploads share the error field.
   An accepted submit and an accepted upload both empty it, whichever
   operation had set it; a failed query, a failed upload and a refused file
   each put their own message there in the place of what was stored.  The
   field gets a non-empty value only in such a step, so what it shows belongs
   to the latest failure or refusal. *)
C23_SharedErrorField ==
  [][variant = "rag" =>
       /\ UserMessageAppended => error' = Str(<<>>)
       /\ uploadCalls' # uploadCalls => error' = Str(<<>>)
       /\ ChatFailed =>
            /\ Truthy(error')
            /\ error' \in {MultimodalRAG_sendErrorMessage(e) : e \in Thrown}
       /\ UploadFailed =>
            /\ Truthy(error')
            /\ error' \in {MultimodalRAG_uploadErrorMessage(e) : e \in Thrown}
       /\ UploadRefused => error' = Str(PleaseUploadPdf)
       /\ (error' # error /\ Truthy(error')) =>
            ChatFailed \/ UploadFailed \/ UploadRefused]_vars

\* a first upload failed and its error was erased by the second upload, all
\* while the query sent before them is still pending
C23_Witness ==
  /\ variant = "rag" /\ loading /\ uploading
  /\ uploadCalls = 2 /\ processedFiles = <<>>
  /\ error = Str(<<>>)

----------------------------------------------------------------------------
\* the name a successful upload is listed under: the server's filename, or
\* the name of the local file when the response has none
ListedName(data, file) ==
  IF data.t = "object" /\ data.f.filename.t = "string" /\ data.f.filename.v # <<>>
  THEN data.f.filename.v
  ELSE file

(* C24: each successful upload appends one entry to the processed files, the
   server's filename or else the name of the local file; nothing else
   changes the list: a refused file, a failed upload, a submit and a clear
   leave it as it is, and a clear leaves the upload flag and the upload's
   success message as they are too. *)
C24_ProcessedFiles ==
  [][/\ UploadAnswered =>
          \A i \in 1..Len(uploadInflight), d \in UploadResponses :
            MultimodalRAG_handleFileUploadResolved(i, d) =>
              processedFiles' =
                Append(processedFiles, ListedName(d, uploadInflight[i].file))
     /\ processedFiles' # processedFiles => UploadSucceeded
     /\ (UploadFailed \/ UploadRefused \/ Submitted \/ Cleared) =>
          UNCHANGED processedFiles
     /\ Cleared => UNCHANGED <<uploading, uploadSuccess, uploadInflight>>]_vars

\* two uploads were processed, one listed under the server's name and one
\* under its own, and the list outlived the clear that emptied the transcript
C24_Witness ==
  /\ processedFiles = <<<<"stored", ".pdf">>, <<"Report", ".PDF">>>>
  /\ chatCalls = 1 /\ ~loading /\ messages = <<>> /\ error = Str(<<>>)
  /\ uploadSuccess = SuccessfullyProcessed(<<"Report", ".PDF">>)

----------------------------------------------------------------------------
\* the discovery request was answered or failed
DiscoveryAnswered == modelsReq = "pending" /\ modelsReq' = "done"

(* C25: model discovery is requested once, when the chat is activated, and
   is never requested again.  An answer that lists llama3, a descriptor
   without a name and mistral, arriving while the chat is active, makes
   llama3 and mistral the available models and llama3 the selected one.  An
   answer or a failure arriving after the chat was deactivated changes
   nothing of the chat's state. *)
C25_DiscoveryOnceAndGuarded ==
  /\ (variant = "chat") <=> (modelsReq = "pending")
  /\ [][modelsReq' # modelsReq => DiscoveryAnswered]_vars
  /\ [][(DiscoveryAnswered /\ mounted) =>
          \A d \in ModelsResponses :
            (LLMChat_loadModelsResolved(d) /\ d.t = "object" /\ d.f.models # <<>>) =>
              /\ availableModels' = <<<<"llama3">>, <<"mistral">>>>
              /\ model' = <<"llama3">>]_vars
  /\ [][(DiscoveryAnswered /\ ~mounted) =>
          UNCHANGED <<variant, mounted, messages, draft, loading, error,
                      systemPrompt, model, availableModels, ragOnly,
                      chatInflight, chatCalls, nextId>>]_vars

\* discovery answered while the chat was active: the first name is selected
C25_Witness ==
  /\ variant = "chat" /\ mounted /\ modelsReq = "done"
  /\ availableModels = <<<<"llama3">>, <<"mistral">>>>
  /\ model = <<"llama3">>
  /\ chatCalls = 0

====
